---- MODULE Spec2Model ----
(***************************************************************************)
(* A model of the MIDI file store of src/app.py: the tables midi_file, tag *)
(* and file_tag, the six request handlers, tag normalization, and the      *)
(* store's transaction behaviour (a request's session is committed by      *)
(* db.session.commit() or discarded when the request ends).                *)
(*                                                                         *)
(* A string is a sequence of one-character strings.  None (an absent form  *)
(* field) is the one-element sequence <<"None">>, which no string of       *)
(* characters equals.                                                      *)
(***************************************************************************)
EXTENDS Integers, Sequences, FiniteSets, TLC

VARIABLES
    tag,        \* table tag: id -> tag string (committed rows)
    midi_file,  \* table midi_file: id -> [name, description, file_data]
    file_tag,   \* association table: set of <<file_id, tag_id>>
    tagSeq,     \* next value of the tag.id sequence
    fileSeq,    \* next value of the midi_file.id sequence
    resp,       \* the last request handled and its response
    deleted,    \* history: ids of the files a /deletefile has removed
    uploaded,   \* history: id -> the bytes last uploaded for that file
    sess,       \* per worker: the request in flight and its open session
    normIn,     \* input of the tag normalization under test
    normOut     \* its output

vars == <<tag, midi_file, file_tag, tagSeq, fileSeq, resp, deleted, uploaded,
          sess, normIn, normOut>>

(***************************************************************************)
(* Bounds of the model.                                                    *)
(***************************************************************************)
MaxFileId == 1
MaxTagId == 2
MaxStrLen == 2
MaxListLen == 2

(***************************************************************************)
(* Strings.                                                                *)
(***************************************************************************)
None == <<"None">>

Whitespace == {" "}

\* str.lower(), on the letters the model uses
LowerChar(c) ==
    CASE c = "A" -> "a"
      [] c = "B" -> "b"
      [] c = "M" -> "m"
      [] c = "I" -> "i"
      [] c = "D" -> "d"
      [] c = "S" -> "s"
      [] OTHER -> c

lower(s) == [i \in 1..Len(s) |-> LowerChar(s[i])]

RECURSIVE lstrip(_)
lstrip(s) ==
    IF s # <<>> /\ Head(s) \in Whitespace THEN lstrip(Tail(s)) ELSE s

RECURSIVE rstrip(_)
rstrip(s) ==
    IF s # <<>> /\ s[Len(s)] \in Whitespace
    THEN rstrip(SubSeq(s, 1, Len(s) - 1))
    ELSE s

\* str.strip()
strip(s) == rstrip(lstrip(s))

\* str.endswith(suffix)
endswith(s, suffix) ==
    /\ Len(s) >= Len(suffix)
    /\ SubSeq(s, Len(s) - Len(suffix) + 1, Len(s)) = suffix

Range(s) == {s[i] : i \in 1..Len(s)}

Range2(f) == {f[i] : i \in DOMAIN f}

\* the .mid / .midi extension test of add_file and update_file
is_midi(filename) ==
    \/ endswith(lower(filename), <<".", "m", "i", "d">>)
    \/ endswith(lower(filename), <<".", "m", "i", "d", "i">>)

(***************************************************************************)
(* Tag normalization: the loop over tag_names with the set seen and the    *)
(* list unique_tag_names.                                                  *)
(***************************************************************************)
\* the membership test of the loop, as a bug would have it: on the trimmed
\* string itself instead of its lower-cased form
seen_key_case_sensitive(t_clean) == t_clean

seen_key(t_clean) == lower(t_clean)

RECURSIVE dedup_loop(_, _, _)
dedup_loop(tag_names, seen, unique) ==
    IF tag_names = <<>> THEN unique
    ELSE LET t_clean == strip(Head(tag_names))
             t_lower == seen_key(t_clean)
         IN  IF t_clean = <<>>
             THEN dedup_loop(Tail(tag_names), seen, unique)
             ELSE IF t_lower \notin seen
                  THEN dedup_loop(Tail(tag_names), seen \cup {t_lower},
                                  Append(unique, t_clean))
                  ELSE dedup_loop(Tail(tag_names), seen, unique)

unique_tag_names(tag_names) == dedup_loop(tag_names, {}, <<>>)

(***************************************************************************)
(* The specification of normalization on its own: every list of at most    *)
(* MaxListLen strings of at most MaxStrLen characters is normalized.       *)
(***************************************************************************)
TagChars == {" ", "a", "A", "b"}

StringsUpTo(n) == UNION {[1..k -> TagChars] : k \in 0..n}

ListsUpTo(n, S) == UNION {[1..k -> S] : k \in 0..n}

NoOutput == <<None>>

\* the server's threads that handle requests at the same time
Workers == {1, 2}

IdleSession ==
    [pc |-> "idle", op |-> "none", id |-> 0, names |-> <<>>, tags |-> <<>>,
     new |-> <<>>, outcome |-> "none", conflict |-> <<>>]

NoResp ==
    [op |-> "none", status |-> 0, error |-> "", id |-> 0, tags |-> <<>>,
     tag_ids |-> <<>>, search |-> <<>>, result |-> {}, data |-> <<>>]

StoreInit ==
    /\ tag = <<>>
    /\ midi_file = <<>>
    /\ file_tag = {}
    /\ tagSeq = 1
    /\ fileSeq = 1
    /\ resp = NoResp
    /\ deleted = {}
    /\ uploaded = <<>>
    /\ sess = [w \in Workers |-> IdleSession]

InitNorm ==
    /\ StoreInit
    /\ normIn \in ListsUpTo(MaxListLen, StringsUpTo(MaxStrLen))
    /\ normOut = NoOutput

NormalizeTags ==
    /\ normOut = NoOutput
    /\ normOut' = unique_tag_names(normIn)
    /\ UNCHANGED <<tag, midi_file, file_tag, tagSeq, fileSeq, resp, deleted,
                   uploaded, sess, normIn>>

NextNorm == NormalizeTags

SpecNorm == InitNorm /\ [][NextNorm]_vars

(***************************************************************************)
(* C3: normalization returns each string trimmed, the strings empty after  *)
(* trimming dropped, and of the strings equal case-insensitively only the  *)
(* first occurrence, with its own trimmed casing, in first-occurrence      *)
(* order; so no two entries of the output are equal case-insensitively.    *)
(***************************************************************************)
Trimmed(s) ==
    LET solid == {i \in 1..Len(s) : s[i] \notin Whitespace}
    IN  IF solid = {} THEN <<>>
        ELSE SubSeq(s, CHOOSE i \in solid : \A j \in solid : i <= j,
                       CHOOSE i \in solid : \A j \in solid : j <= i)

SameIgnoringCase(s, t) ==
    /\ Len(s) = Len(t)
    /\ \A i \in 1..Len(s) : LowerChar(s[i]) = LowerChar(t[i])

KeptPositions(in) ==
    {i \in 1..Len(in) :
        /\ Trimmed(in[i]) # <<>>
        /\ \A j \in 1..(i - 1) : ~SameIgnoringCase(Trimmed(in[j]), Trimmed(in[i]))}

IsNormalizationOf(out, in) ==
    LET kept == KeptPositions(in)
    IN  /\ Len(out) = Cardinality(kept)
        /\ \A i \in kept :
              out[Cardinality({j \in kept : j <= i})] = Trimmed(in[i])

C3_NormalizationExact ==
    normOut # NoOutput =>
        /\ IsNormalizationOf(normOut, normIn)
        /\ \A i, j \in 1..Len(normOut) :
              i # j => ~SameIgnoringCase(normOut[i], normOut[j])

\* the first entry trimmed and kept, a later one in another casing dropped
C3_Witness ==
    /\ normOut # NoOutput
    /\ Len(normIn) = 2
    /\ Len(normOut) = 1
    /\ normIn[1] # normIn[2]
    /\ Trimmed(normIn[2]) # <<>>
    /\ normOut[1] = Trimmed(normIn[1])
    /\ Len(normIn[1]) > Len(normOut[1])

(***************************************************************************)
(* The store.  A store value is [tag, midi_file, file_tag]; the session of *)
(* a request works on a copy of it, which db.session.commit() makes the    *)
(* committed store and the end of a request without commit discards.  The  *)
(* id sequences are not transactional: a value drawn by a flushed insert   *)
(* is gone even when the insert is rolled back.                            *)
(***************************************************************************)
Store == [tag |-> tag, midi_file |-> midi_file, file_tag |-> file_tag]

\* Tag.query.filter_by(tag=tag_name): the ids of the rows with exactly this
\* string
find_tag(tagT, tag_name) == {i \in DOMAIN tagT : tagT[i] = tag_name}

\* the loop that turns unique_tag_names into Tag objects, creating and
\* flushing the missing ones
RECURSIVE resolve_tags(_, _, _, _)
resolve_tags(names, tagT, seq, tags) ==
    IF names = <<>> THEN [tag |-> tagT, seq |-> seq, tags |-> tags]
    ELSE LET found == find_tag(tagT, Head(names))
         IN  IF found # {}
             THEN resolve_tags(Tail(names), tagT, seq,
                               Append(tags, CHOOSE i \in found : TRUE))
             ELSE resolve_tags(Tail(names), tagT @@ (seq :> Head(names)),
                               seq + 1, Append(tags, seq))

\* a replacement of the tag collection that only adds
set_tags_merging(ft, id, tags) == ft \cup {<<id, t>> : t \in Range(tags)}

\* midi_file.tags = tags: the file's association rows become exactly tags
set_tags(ft, id, tags) ==
    {p \in ft : p[1] # id} \cup {<<id, t>> : t \in Range(tags)}

\* a delete that leaves the midi_file row and its associations in place
delete_rows_nothing(s, id) == s

\* a delete that also removes the tags no file uses any more
delete_rows_orphans(s, id) ==
    LET ft == {p \in s.file_tag : p[1] # id}
        used == {p[2] : p \in ft}
    IN  [tag |-> [i \in DOMAIN s.tag \cap used |-> s.tag[i]],
         midi_file |-> [i \in DOMAIN s.midi_file \ {id} |-> s.midi_file[i]],
         file_tag |-> ft]

\* db.session.delete(midi_file): the row and its association rows
delete_rows(s, id) ==
    [tag |-> s.tag,
     midi_file |-> [i \in DOMAIN s.midi_file \ {id} |-> s.midi_file[i]],
     file_tag |-> {p \in s.file_tag : p[1] # id}]

\* a request that ends without commit and keeps what its session flushed
rollback_keeps(committed, session) == session

\* a request that returns without db.session.commit(): the session is
\* removed when the request ends and its changes are rolled back
rollback(committed, session) == committed

(***************************************************************************)
(* LIKE: % matches any run of characters, _ any one character; every       *)
(* other character of the model's alphabet matches itself.                 *)
(***************************************************************************)
RECURSIVE like(_, _)
like(s, pattern) ==
    IF pattern = <<>> THEN s = <<>>
    ELSE IF Head(pattern) = "%"
         THEN like(s, Tail(pattern)) \/ (s # <<>> /\ like(Tail(s), pattern))
         ELSE IF Head(pattern) = "_"
              THEN s # <<>> /\ like(Tail(s), Tail(pattern))
              ELSE /\ s # <<>>
                   /\ Head(s) = Head(pattern)
                   /\ like(Tail(s), Tail(pattern))

\* MidiFile.name.ilike(f'%{search}%')
ilike(name, search) == like(lower(name), lower(<<"%">> \o search \o <<"%">>))

(***************************************************************************)
(* Requests.  The handlers read a request's fields as the code does; the   *)
(* sets below are the requests the model sends.  An id of 0 stands for a   *)
(* missing or empty id; an empty name for a missing or empty name.         *)
(***************************************************************************)
MidName == <<"s", ".", "m", "i", "d">>
MidiName == <<"S", ".", "M", "I", "D", "I">>
TxtName == <<"s", ".", "t", "x", "t">>

Names == {<<"a">>, <<"A", "b">>}
Descriptions == {None, <<"d">>}
Payloads == {<<>>, <<77, 84>>}

\* the tags form field: absent (then '[]'), not JSON or not a list, or a
\* JSON list of strings
TagLists ==
    {<<>>,
     << <<"a">> >>,
     << <<"a">>, <<"b">> >>,
     << <<" ", "a">>, <<"A">> >>,
     << <<"A">>, <<"a">>, <<" ", "A", " ">> >>,
     << <<" ">>, <<"b", " ">> >>}

Absent == [kind |-> "absent", names |-> <<>>]

TagFields ==
    {Absent, [kind |-> "invalid", names |-> <<>>]}
    \cup {[kind |-> "list", names |-> l] : l \in TagLists}

Invalid == [kind |-> "invalid", names |-> <<>>]

AddRequests ==
    [has_file : {TRUE}, filename : {MidName}, name : Names,
     description : {None}, tags : TagFields, data : Payloads]
    \cup [has_file : {TRUE}, filename : {MidiName, TxtName, <<>>},
          name : {<<"a">>}, description : {None}, tags : {Absent},
          data : {<<77, 84>>}]
    \cup [has_file : {FALSE, TRUE}, filename : {MidName}, name : {<<>>},
          description : {None}, tags : {Absent}, data : {<<77, 84>>}]

UpdateRequests ==
    [id : 1..MaxFileId, name : {<<>>, <<"A", "b">>}, description : {None},
     tags : TagFields, has_file : {FALSE}, filename : {<<>>}, data : {<<>>}]
    \cup [id : {0}, name : {<<"a">>}, description : {None}, tags : {Absent},
          has_file : {FALSE}, filename : {<<>>}, data : {<<>>}]
    \cup [id : 1..MaxFileId, name : {<<"a">>}, description : {<<"d">>},
          tags : {Invalid}, has_file : {FALSE}, filename : {<<>>},
          data : {<<>>}]
    \cup [id : 1..MaxFileId, name : {<<"a">>}, description : {<<"d">>},
          tags : {[kind |-> "list", names |-> << <<"a">>, <<"b">> >>]},
          has_file : {TRUE}, filename : {TxtName}, data : {<<77, 84>>}]
    \cup [id : 1..MaxFileId, name : {<<>>}, description : {None},
          tags : {Absent, [kind |-> "list", names |-> << <<"a">>, <<"b">> >>]},
          has_file : {TRUE}, filename : {MidName}, data : Payloads]

GetFilesRequests ==
    {[empty |-> FALSE, tags |-> <<>>, search |-> <<>>],
     [empty |-> FALSE, tags |-> <<1>>, search |-> <<" ", "B">>],
     [empty |-> FALSE, tags |-> <<1, 2>>, search |-> <<" ">>],
     [empty |-> FALSE, tags |-> <<>>, search |-> <<"_">>],
     [empty |-> TRUE, tags |-> <<>>, search |-> <<>>]}

(***************************************************************************)
(* The handlers.  Each returns the response and the store and sequences    *)
(* the request leaves behind.                                              *)
(***************************************************************************)
Outcome(status, error, id, s, tseq, fseq) ==
    [status |-> status, error |-> error, id |-> id, store |-> s,
     tagSeq |-> tseq, fileSeq |-> fseq]

\* add_file from the MidiFile(...) constructor on: the resolved tags r, the
\* new row, the commit
add_file_commit(s, fseq, req, r) ==
    Outcome(200, "", fseq,
            [tag |-> r.tag,
             midi_file |-> s.midi_file @@
                 (fseq :> [name |-> req.name, file_data |-> req.data,
                           description |-> req.description]),
             file_tag |-> set_tags(s.file_tag, fseq, r.tags)],
            r.seq, fseq + 1)

add_file(s, tseq, fseq, req) ==
    IF ~req.has_file THEN Outcome(400, "No file part", 0, s, tseq, fseq)
    ELSE IF req.filename = <<>>
    THEN Outcome(400, "No selected file", 0, s, tseq, fseq)
    ELSE IF ~is_midi(req.filename)
    THEN Outcome(400, "File must be a MIDI (.mid/.midi)", 0, s, tseq, fseq)
    ELSE IF req.name = <<>> \/ req.name = None
    THEN Outcome(400, "Name is required", 0, s, tseq, fseq)
    ELSE IF req.tags.kind = "invalid"
    THEN Outcome(400, "Invalid tags format", 0, s, tseq, fseq)
    ELSE add_file_commit(s, fseq, req,
             resolve_tags(unique_tag_names(req.tags.names), s.tag, tseq, <<>>))

\* update_file from "Update file data if provided" on: s2 is the session
\* with name, description, new Tag rows and the tag set assigned
update_file_data(s, s2, seq, fseq, req) ==
    IF req.has_file /\ ~is_midi(req.filename)
    THEN Outcome(400, "File must be a MIDI (.mid/.midi)", req.id,
                 rollback(s, s2), seq, fseq)
    ELSE Outcome(200, "", req.id,
                 IF req.has_file
                 THEN [s2 EXCEPT !.midi_file[req.id].file_data = req.data]
                 ELSE s2,
                 seq, fseq)

\* update_file from "Update tags" on: s1 is the session with name and
\* description assigned, r the resolved tags
update_file_tags(s, s1, fseq, req, r) ==
    update_file_data(s,
        [s1 EXCEPT !.tag = r.tag,
                   !.file_tag = set_tags(s.file_tag, req.id, r.tags)],
        r.seq, fseq, req)

\* update_file from "Parse tags" on
update_file_parse(s, s1, tseq, fseq, req) ==
    IF req.tags.kind = "invalid"
    THEN Outcome(400, "Invalid tags format", req.id, rollback(s, s1),
                 tseq, fseq)
    ELSE update_file_tags(s, s1, fseq, req,
             resolve_tags(unique_tag_names(req.tags.names), s.tag, tseq, <<>>))

update_file(s, tseq, fseq, req) ==
    IF req.id = 0 THEN Outcome(400, "File ID not provided", 0, s, tseq, fseq)
    ELSE IF req.id \notin DOMAIN s.midi_file
    THEN Outcome(404, "File not found", req.id, s, tseq, fseq)
    ELSE update_file_parse(s,
             [s EXCEPT !.midi_file[req.id] =
                 [@ EXCEPT !.name = IF req.name # <<>> /\ req.name # None
                                    THEN req.name ELSE @,
                           !.description = IF req.description # None
                                           THEN req.description ELSE @]],
             tseq, fseq, req)

delete_file(s, tseq, fseq, id) ==
    IF id = 0 THEN Outcome(400, "No file ID provided", 0, s, tseq, fseq)
    ELSE IF id \notin DOMAIN s.midi_file
    THEN Outcome(404, "File not found", id, s, tseq, fseq)
    ELSE Outcome(200, "", id, delete_rows(s, id), tseq, fseq)

\* the serialized summary of one file
summary(s, f) ==
    [id |-> f, name |-> s.midi_file[f].name,
     description |-> s.midi_file[f].description,
     tags |-> {s.tag[p[2]] : p \in {q \in s.file_tag : q[1] = f}}]

\* the rows the filtered query returns
get_files_rows(s, tag_ids, search) ==
    {f \in DOMAIN s.midi_file :
        /\ \A k \in 1..Len(tag_ids) :
              \E p \in s.file_tag : p[1] = f /\ p[2] = tag_ids[k]
        /\ strip(search) # <<>> => ilike(s.midi_file[f].name, strip(search))}

get_files(s, req) ==
    IF req.empty
    THEN [status |-> 400, error |-> "Missing JSON body", result |-> {}]
    ELSE [status |-> 200, error |-> "",
          result |-> {summary(s, f) : f \in get_files_rows(s, req.tags, req.search)}]

download_file(s, id) ==
    IF id = 0
    THEN [status |-> 400, error |-> "File ID not provided", data |-> <<>>]
    ELSE IF id \notin DOMAIN s.midi_file
    THEN [status |-> 404, error |-> "Not Found", data |-> <<>>]
    ELSE IF s.midi_file[id].file_data = <<>>
    THEN [status |-> 404, error |-> "No file data found", data |-> <<>>]
    ELSE [status |-> 200, error |-> "", data |-> s.midi_file[id].file_data]

get_tag_list(s) == {[id |-> i, tag |-> s.tag[i]] : i \in DOMAIN s.tag}

(***************************************************************************)
(* The requests one after the other: each action is one whole handler.     *)
(***************************************************************************)
Init ==
    /\ StoreInit
    /\ normIn = <<>>
    /\ normOut = NoOutput

Commit(o) ==
    /\ o.tagSeq <= MaxTagId + 1
    /\ o.fileSeq <= MaxFileId + 1
    /\ tag' = o.store.tag
    /\ midi_file' = o.store.midi_file
    /\ file_tag' = o.store.file_tag
    /\ tagSeq' = o.tagSeq
    /\ fileSeq' = o.fileSeq

AddFile ==
    \E req \in AddRequests :
        \E o \in {add_file(Store, tagSeq, fileSeq, req)} :
            /\ Commit(o)
            /\ resp' = [NoResp EXCEPT !.op = "addfile", !.status = o.status,
                           !.error = o.error, !.id = o.id,
                           !.tags = IF o.status = 200 THEN req.tags.names
                                    ELSE <<>>]
            /\ uploaded' = IF o.status = 200 THEN uploaded @@ (o.id :> req.data)
                           ELSE uploaded
            /\ UNCHANGED <<deleted, sess, normIn, normOut>>

UpdateFile ==
    \E req \in UpdateRequests :
        \E o \in {update_file(Store, tagSeq, fileSeq, req)} :
            /\ Commit(o)
            /\ resp' = [NoResp EXCEPT !.op = "updatefile", !.status = o.status,
                           !.error = o.error, !.id = o.id,
                           !.tags = IF o.status = 200 THEN req.tags.names
                                    ELSE <<>>]
            /\ uploaded' = IF o.status = 200 /\ req.has_file
                           THEN [uploaded EXCEPT ![o.id] = req.data]
                           ELSE uploaded
            /\ UNCHANGED <<deleted, sess, normIn, normOut>>

DeleteFile ==
    \E id \in 0..MaxFileId :
        \E o \in {delete_file(Store, tagSeq, fileSeq, id)} :
            /\ Commit(o)
            /\ resp' = [NoResp EXCEPT !.op = "deletefile", !.status = o.status,
                           !.error = o.error, !.id = o.id]
            /\ deleted' = IF o.status = 200 THEN deleted \cup {id} ELSE deleted
            /\ UNCHANGED <<uploaded, sess, normIn, normOut>>

GetFiles ==
    \E req \in GetFilesRequests :
        \E o \in {get_files(Store, req)} :
            /\ resp' = [NoResp EXCEPT !.op = "getfiles", !.status = o.status,
                           !.error = o.error, !.tag_ids = req.tags,
                           !.search = req.search, !.result = o.result]
            /\ UNCHANGED <<tag, midi_file, file_tag, tagSeq, fileSeq, deleted,
                           uploaded, sess, normIn, normOut>>

DownloadFile ==
    \E id \in 0..MaxFileId :
        \E o \in {download_file(Store, id)} :
            /\ resp' = [NoResp EXCEPT !.op = "downloadfile",
                           !.status = o.status, !.error = o.error, !.id = id,
                           !.data = o.data]
            /\ UNCHANGED <<tag, midi_file, file_tag, tagSeq, fileSeq, deleted,
                           uploaded, sess, normIn, normOut>>

GetTagList ==
    /\ resp' = [NoResp EXCEPT !.op = "gettaglist", !.status = 200,
                   !.result = get_tag_list(Store)]
    /\ UNCHANGED <<tag, midi_file, file_tag, tagSeq, fileSeq, deleted,
                   uploaded, sess, normIn, normOut>>

Next ==
    \/ AddFile
    \/ UpdateFile
    \/ DeleteFile
    \/ GetFiles
    \/ DownloadFile
    \/ GetTagList

Spec == Init /\ [][Next]_vars

(***************************************************************************)
(* Concurrent requests.  Each worker runs one /addfile or /updatefile in   *)
(* its own session and transaction; the steps are the statements the       *)
(* handler sends to the store: the SELECT of a tag name, the INSERT of a   *)
(* new Tag (flush), the COMMIT.  A SELECT sees the committed rows and the  *)
(* session's own inserts.                                                  *)
(***************************************************************************)
ConcTagLists ==
    {<<>>, << <<"a">> >>, << <<"b">> >>, << <<"a">>, <<"b">> >>,
     << <<"b">>, <<" ", "a">> >>}

\* the names other sessions have inserted and not yet committed
held_by_others(w) == UNION {Range2(sess[v].new) : v \in Workers \ {w}}

\* a tag table without the uniqueness constraint
unique_index_none(tag_name, w) == "ok"

\* tag.tag is unique: an INSERT of a committed string fails; an INSERT of a
\* string another open transaction has inserted waits for that transaction
unique_index(tag_name, w) ==
    IF find_tag(tag, tag_name) # {} THEN "violation"
    ELSE IF tag_name \in held_by_others(w) THEN "wait"
    ELSE "ok"

InFlight(op) == Cardinality({w \in Workers : sess[w].pc # "idle" /\ sess[w].op = op})

CStart(w) ==
    /\ sess[w].pc = "idle"
    /\ \E op \in {"add", "update"}, id \in 1..MaxFileId, l \in ConcTagLists :
          /\ op = "add" => id = fileSeq /\ fileSeq + InFlight("add") <= MaxFileId
          /\ op = "update" => id \in DOMAIN midi_file
          /\ sess' = [sess EXCEPT ![w] =
                 [IdleSession EXCEPT !.pc = "lookup", !.op = op,
                     !.id = IF op = "add" THEN 0 ELSE id,
                     !.names = unique_tag_names(l)]]
    /\ UNCHANGED <<tag, midi_file, file_tag, tagSeq, fileSeq, resp, deleted,
                   uploaded, normIn, normOut>>

\* Tag.query.filter_by(tag=tag_name).first()
CLookup(w) ==
    /\ sess[w].pc = "lookup"
    /\ sess[w].names # <<>>
    /\ \E found \in {find_tag(tag @@ sess[w].new, Head(sess[w].names))} :
          sess' = [sess EXCEPT ![w] =
              IF found # {}
              THEN [@ EXCEPT !.tags = Append(@, CHOOSE i \in found : TRUE),
                             !.names = Tail(@)]
              ELSE [@ EXCEPT !.pc = "insert"]]
    /\ UNCHANGED <<tag, midi_file, file_tag, tagSeq, fileSeq, resp, deleted,
                   uploaded, normIn, normOut>>

\* db.session.add(tag); db.session.flush() -- the INSERT goes through
CInsert(w) ==
    /\ sess[w].pc = "insert"
    /\ unique_index(Head(sess[w].names), w) = "ok"
    /\ tagSeq <= MaxTagId
    /\ sess' = [sess EXCEPT ![w] =
           [@ EXCEPT !.pc = "lookup",
                     !.new = @ @@ (tagSeq :> Head(sess[w].names)),
                     !.tags = Append(@, tagSeq),
                     !.names = Tail(@)]]
    /\ tagSeq' = tagSeq + 1
    /\ UNCHANGED <<tag, midi_file, file_tag, fileSeq, resp, deleted, uploaded,
                   normIn, normOut>>

\* the flush raises IntegrityError: nothing catches it, the request ends
\* with a 500 and its session is rolled back
CInsertFails(w) ==
    /\ sess[w].pc = "insert"
    /\ unique_index(Head(sess[w].names), w) = "violation"
    /\ sess' = [sess EXCEPT ![w] =
           [@ EXCEPT !.pc = "idle", !.outcome = "IntegrityError",
                     !.conflict = Head(sess[w].names)]]
    /\ UNCHANGED <<tag, midi_file, file_tag, tagSeq, fileSeq, resp, deleted,
                   uploaded, normIn, normOut>>

\* two sessions wait for each other's insert: the store aborts one of them
CDeadlock(w) ==
    /\ sess[w].pc = "insert"
    /\ \E v \in Workers \ {w} :
          /\ sess[v].pc = "insert"
          /\ Head(sess[w].names) \in Range2(sess[v].new)
          /\ Head(sess[v].names) \in Range2(sess[w].new)
    /\ sess' = [sess EXCEPT ![w] =
           [@ EXCEPT !.pc = "idle", !.outcome = "deadlock",
                     !.conflict = Head(sess[w].names)]]
    /\ UNCHANGED <<tag, midi_file, file_tag, tagSeq, fileSeq, resp, deleted,
                   uploaded, normIn, normOut>>

\* midi_file.tags = tags; db.session.commit()
CCommit(w) ==
    /\ sess[w].pc = "lookup"
    /\ sess[w].names = <<>>
    /\ \E id \in {IF sess[w].op = "add" THEN fileSeq ELSE sess[w].id} :
          /\ tag' = tag @@ sess[w].new
          /\ midi_file' =
                IF sess[w].op = "add"
                THEN midi_file @@ (id :> [name |-> <<"a">>,
                                          file_data |-> <<77, 84>>,
                                          description |-> None])
                ELSE midi_file
          /\ fileSeq' = IF sess[w].op = "add" THEN fileSeq + 1 ELSE fileSeq
          /\ file_tag' = set_tags(file_tag, id, sess[w].tags)
          /\ uploaded' = IF sess[w].op = "add"
                         THEN uploaded @@ (id :> <<77, 84>>) ELSE uploaded
          /\ sess' = [sess EXCEPT ![w] =
                 [@ EXCEPT !.pc = "idle", !.outcome = "committed", !.id = id]]
    /\ UNCHANGED <<tagSeq, resp, deleted, normIn, normOut>>

NextConc ==
    \E w \in Workers :
        \/ CStart(w)
        \/ CLookup(w)
        \/ CInsert(w)
        \/ CInsertFails(w)
        \/ CDeadlock(w)
        \/ CCommit(w)

SpecConc == Init /\ [][NextConc]_vars

(***************************************************************************)
(* The claims.                                                             *)
(***************************************************************************)
TagsOf(f) == {p[2] : p \in {q \in file_tag : q[1] = f}}

Contains(s, sub) ==
    \E k \in 0..(Len(s) - Len(sub)) : SubSeq(s, k + 1, k + Len(sub)) = sub

(***************************************************************************)
(* C1: after any sequence of successful /addfile, /updatefile and          *)
(* /deletefile requests, no stored file is associated with two Tag rows    *)
(* whose names are equal case-insensitively after trimming.                *)
(***************************************************************************)
C1_FileTagsCaseDistinct ==
    \A f \in DOMAIN midi_file :
        /\ TagsOf(f) \subseteq DOMAIN tag
        /\ \A t1, t2 \in TagsOf(f) :
              t1 # t2 => ~SameIgnoringCase(Trimmed(tag[t1]), Trimmed(tag[t2]))

\* a file created with tags ["A", "a", " A "] holds the one tag "A"
C1_Witness ==
    /\ resp.op = "addfile"
    /\ resp.status = 200
    /\ resp.tags = << <<"A">>, <<"a">>, <<" ", "A", " ">> >>
    /\ {tag[t] : t \in TagsOf(resp.id)} = {<<"A">>}
    /\ Cardinality(TagsOf(resp.id)) = 1

C4_GetFilesExact ==
    (resp.op = "getfiles" /\ resp.status = 200) =>
        {r.id : r \in resp.result} =
            {f \in DOMAIN midi_file :
                /\ \A t \in Range(resp.tag_ids) : <<f, t>> \in file_tag
                /\ Contains(lower(midi_file[f].name), lower(Trimmed(resp.search)))}

(***************************************************************************)
(* C5: once a /deletefile for a file's id has succeeded, in every later    *)
(* state the file has no row and no association rows, no /getfiles result  *)
(* contains the id, and /downloadfile for the id returns 404.              *)
(***************************************************************************)
C5_DeletedStaysGone ==
    \A id \in deleted :
        /\ id \notin DOMAIN midi_file
        /\ \A p \in file_tag : p[1] # id
        /\ resp.op = "getfiles" => \A r \in resp.result : r.id # id
        /\ (resp.op = "downloadfile" /\ resp.id = id) => resp.status = 404

\* a download of a deleted file, answered 404, while the tags it had remain
C5_Witness ==
    /\ resp.op = "downloadfile"
    /\ resp.id \in deleted
    /\ resp.status = 404
    /\ tag # <<>>

(***************************************************************************)
(* C6: no request removes or changes a Tag row: every row that existed     *)
(* before a step exists after it with the same id and string, and          *)
(* /gettaglist returns every row of the table.                             *)
(***************************************************************************)
C6_TagRowsOnlyGrow ==
    /\ [][\A i \in DOMAIN tag : i \in DOMAIN tag' /\ tag'[i] = tag[i]]_vars
    /\ [](resp.op = "gettaglist" =>
            /\ \A i \in DOMAIN tag : [id |-> i, tag |-> tag[i]] \in resp.result
            /\ Cardinality(resp.result) = Cardinality(DOMAIN tag))

\* the tag list after the only file that used the tags was deleted
C6_Witness ==
    /\ resp.op = "gettaglist"
    /\ Cardinality(resp.result) = 2
    /\ deleted # {}
    /\ file_tag = {}

(***************************************************************************)
(* C7: a /downloadfile of a stored file returns exactly the bytes last     *)
(* uploaded for it by a successful /addfile or /updatefile.                *)
(***************************************************************************)
C7_RoundTrip ==
    (/\ resp.op = "downloadfile"
     /\ resp.id \in DOMAIN midi_file
     /\ resp.id \in DOMAIN uploaded) =>
        /\ resp.status = 200
        /\ resp.data = uploaded[resp.id]

(***************************************************************************)
(* C8: after a successful /updatefile the file's tag set is exactly the    *)
(* Tag rows of the request's normalized tags, whatever it was before; an   *)
(* absent or empty tags field leaves the file without associations.        *)
(***************************************************************************)
C8_UpdateReplacesTags ==
    (resp.op = "updatefile" /\ resp.status = 200) =>
        /\ TagsOf(resp.id) \subseteq DOMAIN tag
        /\ {tag[t] : t \in TagsOf(resp.id)} = Range(unique_tag_names(resp.tags))
        /\ Cardinality(TagsOf(resp.id)) = Len(unique_tag_names(resp.tags))

\* an update without tags cleared the file's associations; the rows remain
C8_Witness ==
    /\ resp.op = "updatefile"
    /\ resp.status = 200
    /\ resp.tags = <<>>
    /\ TagsOf(resp.id) = {}
    /\ Cardinality(DOMAIN tag) = 2

C10_RejectedUpdateChangesNothing ==
    [][(resp'.op = "updatefile" /\ resp'.status \in {400, 404}) =>
          /\ tag' = tag
          /\ midi_file' = midi_file
          /\ file_tag' = file_tag]_vars

\* an update rejected for its extension after it had flushed new Tag rows:
\* the sequence values are spent, the rows are not there
C10_Witness ==
    /\ resp.op = "updatefile"
    /\ resp.status = 400
    /\ resp.error = "File must be a MIDI (.mid/.midi)"
    /\ tagSeq = 3
    /\ tag = <<>>
    /\ resp.id \in DOMAIN midi_file
    /\ midi_file[resp.id].name # <<"a">>

====
